---------------------------- MODULE Spec2Model ----------------------------
(***************************************************************************)
(* A model of warp's websocket filter, src/filters/ws.rs: the handshake    *)
(* filter (ws, ws_new, connection_has_upgrade, Accept, Ws) and the duplex  *)
(* message adapter (WebSocket as Stream and Sink, Message).                *)
(*                                                                         *)
(* Strings and header values are sequences of bytes (0..255), so that      *)
(* splitting, case folding, hashing and encoding are computed as the code  *)
(* computes them.                                                          *)
(***************************************************************************)
EXTENDS Integers, Sequences, FiniteSets, TLC

(***************************************************************************)
(* Byte strings used by the source.                                        *)
(***************************************************************************)
\* "upgrade"  (ws.rs:98, ws.rs:115)
STR_upgrade == <<117, 112, 103, 114, 97, 100, 101>>
\* "websocket"  (ws.rs:65, ws.rs:116)
STR_websocket == <<119, 101, 98, 115, 111, 99, 107, 101, 116>>
\* "13"  (ws.rs:66)
STR_13 == <<49, 51>>
\* ", "  (ws.rs:97)
STR_comma_space == <<44, 32>>
\* "258EAFA5-E914-47DA-95CA-C5AB0DC85B11"  (ws.rs:281)
GUID ==
  <<50, 53, 56, 69, 65, 70, 65, 53, 45, 69, 57, 49, 52, 45, 52, 55, 68, 65,
    45, 57, 53, 67, 65, 45, 67, 53, 65, 66, 48, 68, 67, 56, 53, 66, 49, 49>>

(***************************************************************************)
(* Option<T> is a sequence of length at most one: <<>> is None, <<v>> is   *)
(* Some(v).                                                                *)
(***************************************************************************)
None == <<>>
Some(v) == <<v>>
IsSome(o) == Len(o) = 1
Unwrap(o) == o[1]

(***************************************************************************)
(* str::eq_ignore_ascii_case, HeaderValue::to_str, str::split              *)
(***************************************************************************)
to_ascii_lowercase(b) == IF b >= 65 /\ b <= 90 THEN b + 32 ELSE b

eq_ignore_ascii_case(a, b) ==
  /\ Len(a) = Len(b)
  /\ \A i \in 1..Len(a) : to_ascii_lowercase(a[i]) = to_ascii_lowercase(b[i])

\* HeaderValue::to_str succeeds only on visible ASCII (and tab).
to_str(value) ==
  IF \A i \in 1..Len(value) : value[i] = 9 \/ (value[i] >= 32 /\ value[i] < 127)
  THEN Some(value) ELSE None

\* Whether pat occurs in s at position i.
MatchAt(s, pat, i) ==
  /\ i + Len(pat) - 1 <= Len(s)
  /\ \A j \in 1..Len(pat) : s[i + j - 1] = pat[j]

\* s.split(pat): the pieces of s between the non-overlapping occurrences of
\* pat, found left to right; cur is the piece being collected from position i.
RECURSIVE SplitFrom(_, _, _, _)
SplitFrom(s, pat, i, cur) ==
  IF i > Len(s) THEN <<cur>>
  ELSE IF MatchAt(s, pat, i)
       THEN <<cur>> \o SplitFrom(s, pat, i + Len(pat), <<>>)
       ELSE SplitFrom(s, pat, i + 1, Append(cur, s[i]))

split(s, pat) == SplitFrom(s, pat, 1, <<>>)

(***************************************************************************)
(* connection_has_upgrade (ws.rs:90-104): Some(()) when a piece of the     *)
(* value split on ", " equals "upgrade" ignoring ASCII case.  The unit     *)
(* value () is modelled by TRUE.                                           *)
(***************************************************************************)
connection_has_upgrade(value) ==
  LET s == to_str(value) IN
  IF ~IsSome(s) THEN None
  ELSE LET opts == split(Unwrap(s), STR_comma_space) IN
       IF \E k \in 1..Len(opts) : eq_ignore_ascii_case(opts[k], STR_upgrade)
       THEN Some(TRUE) ELSE None

(***************************************************************************)
(* SHA-1 (sha1::Sha1) over bytes.  A 32-bit word is a pair <<hi, lo>> of   *)
(* 16-bit halves, so that every intermediate value fits a machine integer. *)
(***************************************************************************)
\* Bit i of a xor b and of a and b, in place.
XorBit(a, b, i) == ((((a \div (2 ^ i)) % 2) + ((b \div (2 ^ i)) % 2)) % 2) * (2 ^ i)
AndBit(a, b, i) == (((a \div (2 ^ i)) % 2) * ((b \div (2 ^ i)) % 2)) * (2 ^ i)

Xor16(a, b) ==
  XorBit(a, b, 0) + XorBit(a, b, 1) + XorBit(a, b, 2) + XorBit(a, b, 3)
  + XorBit(a, b, 4) + XorBit(a, b, 5) + XorBit(a, b, 6) + XorBit(a, b, 7)
  + XorBit(a, b, 8) + XorBit(a, b, 9) + XorBit(a, b, 10) + XorBit(a, b, 11)
  + XorBit(a, b, 12) + XorBit(a, b, 13) + XorBit(a, b, 14) + XorBit(a, b, 15)

And16(a, b) ==
  AndBit(a, b, 0) + AndBit(a, b, 1) + AndBit(a, b, 2) + AndBit(a, b, 3)
  + AndBit(a, b, 4) + AndBit(a, b, 5) + AndBit(a, b, 6) + AndBit(a, b, 7)
  + AndBit(a, b, 8) + AndBit(a, b, 9) + AndBit(a, b, 10) + AndBit(a, b, 11)
  + AndBit(a, b, 12) + AndBit(a, b, 13) + AndBit(a, b, 14) + AndBit(a, b, 15)

WXor(x, y) == <<Xor16(x[1], y[1]), Xor16(x[2], y[2])>>
WAnd(x, y) == <<And16(x[1], y[1]), And16(x[2], y[2])>>
WNot(x) == <<65535 - x[1], 65535 - x[2]>>
WOr(x, y) == WNot(WAnd(WNot(x), WNot(y)))

\* wrapping_add
WAdd(x, y) ==
  LET lo == x[2] + y[2]
      hi == x[1] + y[1] + (lo \div 65536)
  IN <<hi % 65536, lo % 65536>>

\* rotate_left by n, 0 < n < 16
RotlSmall(x, n) ==
  <<((x[1] * (2 ^ n)) % 65536) + (x[2] \div (2 ^ (16 - n))),
    ((x[2] * (2 ^ n)) % 65536) + (x[1] \div (2 ^ (16 - n)))>>

\* rotate_left by n, 0 < n < 32
Rotl(x, n) ==
  IF n < 16 THEN RotlSmall(x, n)
  ELSE IF n = 16 THEN <<x[2], x[1]>>
  ELSE RotlSmall(<<x[2], x[1]>>, n - 16)

\* The message padded to a multiple of 64 bytes: 0x80, zeros, and the bit
\* length as a 64-bit big-endian integer.
Sha1Pad(msg) ==
  LET n == Len(msg)
      zeros == (119 - (n % 64)) % 64
      bits == 8 * n
  IN msg \o <<128>> \o [i \in 1..zeros |-> 0]
         \o <<0, 0, 0, 0>>
         \o <<(bits \div 16777216) % 256, (bits \div 65536) % 256,
              (bits \div 256) % 256, bits % 256>>

\* Big-endian word t (0-based) of the block starting at byte offset off.
BlockWord(p, off, t) ==
  <<p[off + 4 * t + 1] * 256 + p[off + 4 * t + 2],
    p[off + 4 * t + 3] * 256 + p[off + 4 * t + 4]>>

\* The 80-word message schedule, extended one word at a time.
RECURSIVE Schedule(_)
Schedule(w) ==
  IF Len(w) = 80 THEN w
  ELSE LET t == Len(w) + 1
           x == WXor(WXor(w[t - 3], w[t - 8]), WXor(w[t - 14], w[t - 16]))
       IN Schedule(Append(w, Rotl(x, 1)))

Sha1F(t, b, c, d) ==
  IF t < 20 THEN WOr(WAnd(b, c), WAnd(WNot(b), d))
  ELSE IF t < 40 THEN WXor(WXor(b, c), d)
  ELSE IF t < 60 THEN WOr(WOr(WAnd(b, c), WAnd(b, d)), WAnd(c, d))
  ELSE WXor(WXor(b, c), d)

Sha1K(t) ==
  IF t < 20 THEN <<23170, 31129>>        \* 0x5A827999
  ELSE IF t < 40 THEN <<28377, 60321>>   \* 0x6ED9EBA1
  ELSE IF t < 60 THEN <<36635, 48348>>   \* 0x8F1BBCDC
  ELSE <<51810, 49622>>                  \* 0xCA62C1D6

\* Round t (0-based) applied to the working state v = <<a, b, c, d, e>>.
Round(w, t, v) ==
  LET tmp == WAdd(WAdd(WAdd(Rotl(v[1], 5), Sha1F(t, v[2], v[3], v[4])),
                       WAdd(v[5], Sha1K(t))), w[t + 1])
  IN <<tmp, v[1], Rotl(v[2], 30), v[3], v[4]>>

\* vs is the sequence of working states, the initial one and the one after
\* each round so far; the result is the state after round 79.
RECURSIVE Rounds(_, _)
Rounds(w, vs) ==
  IF Len(vs) = 81 THEN vs[81]
  ELSE Rounds(w, Append(vs, Round(w, Len(vs) - 1, vs[Len(vs)])))

\* The blocks of the padded message p from byte offset off on, folded into h.
RECURSIVE Sha1Blocks(_, _, _)
Sha1Blocks(p, off, h) ==
  IF off >= Len(p) THEN h
  ELSE LET w == Schedule([t \in 1..16 |-> BlockWord(p, off, t - 1)])
           v == Rounds(w, <<h>>)
       IN Sha1Blocks(p, off + 64, [i \in 1..5 |-> WAdd(h[i], v[i])])

\* The 20-byte digest.
Sha1(msg) ==
  LET h == Sha1Blocks(Sha1Pad(msg), 0,
             << <<26437, 8961>>, <<61389, 43913>>, <<39098, 56574>>,
                <<4146, 21622>>, <<50130, 57840>> >>)
  IN [i \in 1..20 |->
        LET half == h[((i - 1) \div 4) + 1][(((i - 1) % 4) \div 2) + 1]
        IN IF (i - 1) % 2 = 0 THEN half \div 256 ELSE half % 256]

(***************************************************************************)
(* base64::encode: the standard alphabet, with padding.                    *)
(***************************************************************************)
Base64Alphabet ==
  <<65, 66, 67, 68, 69, 70, 71, 72, 73, 74, 75, 76, 77, 78, 79, 80, 81, 82,
    83, 84, 85, 86, 87, 88, 89, 90, 97, 98, 99, 100, 101, 102, 103, 104, 105,
    106, 107, 108, 109, 110, 111, 112, 113, 114, 115, 116, 117, 118, 119,
    120, 121, 122, 48, 49, 50, 51, 52, 53, 54, 55, 56, 57, 43, 47>>

RECURSIVE Base64From(_, _)
Base64From(bytes, i) ==
  LET n == Len(bytes) - i + 1
      b1 == bytes[i]
      b2 == IF n >= 2 THEN bytes[i + 1] ELSE 0
      b3 == IF n >= 3 THEN bytes[i + 2] ELSE 0
      c1 == Base64Alphabet[(b1 \div 4) + 1]
      c2 == Base64Alphabet[((b1 % 4) * 16 + (b2 \div 16)) + 1]
      c3 == Base64Alphabet[((b2 % 16) * 4 + (b3 \div 64)) + 1]
      c4 == Base64Alphabet[(b3 % 64) + 1]
  IN IF n <= 0 THEN <<>>
     ELSE IF n = 1 THEN <<c1, c2, 61, 61>>
     ELSE IF n = 2 THEN <<c1, c2, c3, 61>>
     ELSE <<c1, c2, c3, c4>> \o Base64From(bytes, i + 3)

base64_encode(bytes) == Base64From(bytes, 1)

\* from_str hashing the literal before the key.
from_str_guid_first(s) == base64_encode(Sha1(GUID \o s))

(***************************************************************************)
(* Accept::from_str (ws.rs:275-284): base64(SHA-1(key ++ GUID)); never     *)
(* fails (Err = Never).                                                    *)
(***************************************************************************)
from_str(s) == base64_encode(Sha1(s \o GUID))

(***************************************************************************)
(* Bounds of the model.                                                    *)
(***************************************************************************)
\* Number of requests (one connection each) given to the filter.
MaxConns == 2

Conns == 1..MaxConns

(***************************************************************************)
(* Requests.  A header is an Option of its value.                          *)
(***************************************************************************)
\* "keep-alive, Upgrade"
STR_keepalive_Upgrade ==
  <<107, 101, 101, 112, 45, 97, 108, 105, 118, 101, 44, 32,
    85, 112, 103, 114, 97, 100, 101>>
\* "keep-alive"
STR_keepalive == <<107, 101, 101, 112, 45, 97, 108, 105, 118, 101>>
\* "keep-alive,Upgrade": a list without a space after its comma.
STR_keepalive_comma_Upgrade ==
  <<107, 101, 101, 112, 45, 97, 108, 105, 118, 101, 44,
    85, 112, 103, 114, 97, 100, 101>>
\* "WebSocket"
STR_WebSocket == <<87, 101, 98, 83, 111, 99, 107, 101, 116>>
\* "h2c"
STR_h2c == <<104, 50, 99>>
\* "8"
STR_8 == <<56>>
\* "dGhlIHNhbXBsZSBub25jZQ=="
KEY_sample ==
  <<100, 71, 104, 108, 73, 72, 78, 104, 98, 88, 66, 115, 90, 83, 66, 117,
    98, 50, 53, 106, 90, 81, 61, 61>>
\* "a"
KEY_a == <<97>>

Methods == {"GET", "POST"}
ConnectionValues ==
  {None, Some(STR_keepalive_Upgrade), Some(STR_keepalive),
   Some(STR_keepalive_comma_Upgrade)}
UpgradeValues == {None, Some(STR_WebSocket), Some(STR_h2c)}
VersionValues == {None, Some(STR_13), Some(STR_8)}
KeyValues == {None, Some(KEY_sample), Some(KEY_a)}

Requests ==
  [method : Methods, connection : ConnectionValues, upgrade : UpgradeValues,
   version : VersionValues, key : KeyValues]

(***************************************************************************)
(* The state.                                                              *)
(***************************************************************************)
VARIABLES
  lastReq,       \* the request most recently given to the filter, and its connection
  reply,         \* per connection: what the filter produced (nothing yet, a rejection, a Ws)
  response,      \* per connection: Option of the HTTP response built from the Ws
  factoryCalls,  \* per connection: number of calls of the handler factory
  upgradeFut,    \* per connection: the future spawned on body.on_upgrade()
  handlerCalls,  \* per connection: the sockets the handler was invoked with
  task,          \* per connection: the future spawned by ws for the handler's work
  logs           \* per connection: the log lines written

hsVars ==
  <<lastReq, reply, response, factoryCalls, upgradeFut, handlerCalls, task, logs>>

\* One WebSocket (ws.rs:131-133) and the framing layer it owns (inner).
VARIABLES
  arrived,     \* what the peer has sent so far, in order: frames, then maybe an end
  rd,          \* how many items of arrived the framing layer has read
  rstate,      \* the framing layer's reading side: open, closed, eof, failed
  sent,        \* the frames the framing layer accepted for writing, in order
  written,     \* how many frames of sent have reached the peer
  closeSent,   \* whether a Close frame has been accepted for writing
  observed,    \* what poll returned to its caller so far, NotReady left out
  lastPoll,    \* the most recent poll: what it returned, which items it read
               \* (from+1..to), and how many had arrived when it ran
  attempts,    \* the pong writes poll attempted: payload and outcome
  sendLog,     \* per start_send call: the item submitted, the outcome of the
               \* write, what was returned, and how many frames the call queued
  flushed,     \* poll_complete returned Ready and nothing was accepted since
  closeLog     \* per close call: whether a Close had been sent, and how many it added

wsVars ==
  <<arrived, rd, rstate, sent, written, closeSent, observed, lastPoll,
    attempts, sendLog, flushed, closeLog>>

vars == <<hsVars, wsVars>>

(***************************************************************************)
(* The filters ws_new combines.  A filter yields Some(extracted value) or  *)
(* None (a rejection).                                                     *)
(***************************************************************************)
\* ::get: the method must be GET.
get(req) == req.method = "GET"

\* header::if_value(name, f): the header must be present and f must accept
\* it; f is given as its graph on the values the header takes.
if_value(h, f) == IF IsSome(h) THEN f[Unwrap(h)] ELSE None

\* connection_has_upgrade as the argument of if_value (ws.rs:64).
connection_has_upgrade_fn ==
  [value \in {Unwrap(h) : h \in {o \in ConnectionValues : IsSome(o)}}
     |-> connection_has_upgrade(value)]

\* header::exact_ignore_case(name, value)
exact_ignore_case(h, value) ==
  IF IsSome(h) /\ eq_ignore_ascii_case(Unwrap(h), value) THEN Some(TRUE) ELSE None

\* header::exact(name, value)
exact(h, value) == IF IsSome(h) /\ Unwrap(h) = value THEN Some(TRUE) ELSE None

\* Accept::from_str on the keys of the model's requests, computed once.
AcceptOf == [k \in {Unwrap(h) : h \in {o \in KeyValues : IsSome(o)}} |-> from_str(k)]

\* header::header::<Accept>(name): the header must be present; its value is
\* parsed by Accept::from_str, which cannot fail.
header_Accept(h) == IF IsSome(h) THEN Some(AcceptOf[Unwrap(h)]) ELSE None

\* ws_new with the version filter left out.
ws_new_filters_no_version(req) ==
  IF /\ get(req)
     /\ IsSome(if_value(req.connection, connection_has_upgrade_fn))
     /\ IsSome(exact_ignore_case(req.upgrade, STR_websocket))
     /\ IsSome(header_Accept(req.key))
  THEN header_Accept(req.key)
  ELSE None

\* ws_new (ws.rs:64-68): the conjunction of the filters; extracts the Accept.
ws_new_filters(req) ==
  IF /\ get(req)
     /\ IsSome(if_value(req.connection, connection_has_upgrade_fn))
     /\ IsSome(exact_ignore_case(req.upgrade, STR_websocket))
     /\ IsSome(exact(req.version, STR_13))
     /\ IsSome(header_Accept(req.key))
  THEN header_Accept(req.key)
  ELSE None

(***************************************************************************)
(* Ws and Ws::into_response (ws.rs:107-121).                               *)
(***************************************************************************)
NoReply == [kind |-> "none"]
Rejected == [kind |-> "rejected"]
Ws(accept) == [kind |-> "ws", accept |-> accept]

\* into_response answering 200 instead of 101.
into_response_ok(ws) ==
  [status |-> 200,
   headers |-> << <<"connection", STR_upgrade>>,
                  <<"upgrade", STR_websocket>>,
                  <<"sec-websocket-accept", ws.accept>> >>,
   body |-> <<>>]

into_response(ws) ==
  [status |-> 101,
   headers |-> << <<"connection", STR_upgrade>>,
                  <<"upgrade", STR_websocket>>,
                  <<"sec-websocket-accept", ws.accept>> >>,
   body |-> <<>>]

(***************************************************************************)
(* The handshake: one action per step of a connection.                     *)
(***************************************************************************)
InitHsVars ==
  /\ lastReq = None
  /\ reply = [c \in Conns |-> NoReply]
  /\ response = [c \in Conns |-> None]
  /\ factoryCalls = [c \in Conns |-> 0]
  /\ upgradeFut = [c \in Conns |-> "none"]
  /\ handlerCalls = [c \in Conns |-> <<>>]
  /\ task = [c \in Conns |-> "none"]
  /\ logs = [c \in Conns |-> <<>>]

\* The closure running the upgrade and the handler inline, before it returns
\* the Ws, instead of spawning them.
RunFilter_inline(c, req) ==
  /\ reply[c] = NoReply
  /\ \A d \in Conns : d < c => reply[d] # NoReply
  /\ lastReq' = Some([conn |-> c, req |-> req])
  /\ LET extracted == ws_new_filters(req) IN
     IF IsSome(extracted)
     THEN /\ factoryCalls' = [factoryCalls EXCEPT ![c] = @ + 1]
          /\ upgradeFut' = [upgradeFut EXCEPT ![c] = "complete"]
          /\ handlerCalls' = [handlerCalls EXCEPT ![c] = Append(@, [inner |-> c])]
          /\ task' = [task EXCEPT ![c] = "done"]
          /\ reply' = [reply EXCEPT ![c] = Ws(Unwrap(extracted))]
     ELSE /\ reply' = [reply EXCEPT ![c] = Rejected]
          /\ UNCHANGED <<factoryCalls, upgradeFut, handlerCalls, task>>
  /\ UNCHANGED <<response, logs>>
  /\ UNCHANGED wsVars

\* The filter built by ws_new runs on request req, the one of connection c
\* (ws.rs:59-88).  Connections are numbered in the order of their requests.
\* When the filters pass, the closure calls the factory, spawns the future
\* that waits for the upgrade, and returns the Ws.
RunFilter(c, req) ==
  /\ reply[c] = NoReply
  /\ \A d \in Conns : d < c => reply[d] # NoReply
  /\ lastReq' = Some([conn |-> c, req |-> req])
  /\ LET extracted == ws_new_filters(req) IN
     IF IsSome(extracted)
     THEN /\ factoryCalls' = [factoryCalls EXCEPT ![c] = @ + 1]
          /\ upgradeFut' = [upgradeFut EXCEPT ![c] = "spawned"]
          /\ reply' = [reply EXCEPT ![c] = Ws(Unwrap(extracted))]
     ELSE /\ reply' = [reply EXCEPT ![c] = Rejected]
          /\ UNCHANGED <<factoryCalls, upgradeFut>>
  /\ UNCHANGED <<response, handlerCalls, task, logs>>
  /\ UNCHANGED wsVars

\* The reply machinery turns the Ws into the response (ws.rs:111-121).
IntoResponse(c) ==
  /\ reply[c].kind = "ws"
  /\ response[c] = None
  /\ response' = [response EXCEPT ![c] = Some(into_response(reply[c]))]
  /\ UNCHANGED <<lastReq, reply, factoryCalls, upgradeFut, handlerCalls, task, logs>>
  /\ UNCHANGED wsVars

\* The success arm calling the handler twice.
UpgradeComplete_calls_twice(c) ==
  /\ upgradeFut[c] = "spawned"
  /\ IsSome(response[c])
  /\ upgradeFut' = [upgradeFut EXCEPT ![c] = "complete"]
  /\ logs' = [logs EXCEPT ![c] = Append(@, "websocket upgrade complete")]
  /\ handlerCalls' = [handlerCalls EXCEPT
                        ![c] = Append(Append(@, [inner |-> c]), [inner |-> c])]
  /\ task' = [task EXCEPT ![c] = "running"]
  /\ UNCHANGED <<lastReq, reply, response, factoryCalls>>
  /\ UNCHANGED wsVars

\* body.on_upgrade() resolves with the upgraded io, once the 101 response
\* has been written: the future wraps it in a WebSocket (ws.rs:72-80) and
\* calls the handler, which for ws spawns the handler's future
\* (ws.rs:47-50).  The socket is named by the connection whose io it owns.
UpgradeComplete(c) ==
  /\ upgradeFut[c] = "spawned"
  /\ IsSome(response[c])
  /\ upgradeFut' = [upgradeFut EXCEPT ![c] = "complete"]
  /\ logs' = [logs EXCEPT ![c] = Append(@, "websocket upgrade complete")]
  /\ handlerCalls' = [handlerCalls EXCEPT ![c] = Append(@, [inner |-> c])]
  /\ task' = [task EXCEPT ![c] = "running"]
  /\ UNCHANGED <<lastReq, reply, response, factoryCalls>>
  /\ UNCHANGED wsVars

\* The error arm building a WebSocket and calling the handler all the same.
UpgradeError_invokes_handler(c) ==
  /\ upgradeFut[c] = "spawned"
  /\ upgradeFut' = [upgradeFut EXCEPT ![c] = "failed"]
  /\ logs' = [logs EXCEPT ![c] = Append(@, "ws upgrade error")]
  /\ handlerCalls' = [handlerCalls EXCEPT ![c] = Append(@, [inner |-> c])]
  /\ task' = [task EXCEPT ![c] = "running"]
  /\ UNCHANGED <<lastReq, reply, response, factoryCalls>>
  /\ UNCHANGED wsVars

\* body.on_upgrade() resolves with an error: it is logged (ws.rs:81).
UpgradeError(c) ==
  /\ upgradeFut[c] = "spawned"
  /\ upgradeFut' = [upgradeFut EXCEPT ![c] = "failed"]
  /\ logs' = [logs EXCEPT ![c] = Append(@, "ws upgrade error")]
  /\ UNCHANGED <<lastReq, reply, response, factoryCalls, handlerCalls, task>>
  /\ UNCHANGED wsVars

\* A failing handler taking the other running sessions down with it.
HandlerFinish_propagates(c, ok) ==
  /\ task[c] = "running"
  /\ task' = [d \in Conns |->
                IF d = c THEN (IF ok THEN "done" ELSE "failed")
                ELSE IF ~ok /\ task[d] = "running" THEN "failed" ELSE task[d]]
  /\ UNCHANGED <<lastReq, reply, response, factoryCalls, upgradeFut, handlerCalls, logs>>
  /\ UNCHANGED wsVars

\* The handler's future, spawned on the runtime (ws.rs:49), resolves with
\* Ok(()) or Err(()).
HandlerFinish(c, ok) ==
  /\ task[c] = "running"
  /\ task' = [task EXCEPT ![c] = IF ok THEN "done" ELSE "failed"]
  /\ UNCHANGED <<lastReq, reply, response, factoryCalls, upgradeFut, handlerCalls, logs>>
  /\ UNCHANGED wsVars

NextHs ==
  \/ \E c \in Conns, req \in Requests : RunFilter(c, req)
  \/ \E c \in Conns : IntoResponse(c)
  \/ \E c \in Conns : UpgradeComplete(c)
  \/ \E c \in Conns : UpgradeError(c)
  \/ \E c \in Conns, ok \in BOOLEAN : HandlerFinish(c, ok)


(***************************************************************************)
(* Bounds of the channel model.                                            *)
(***************************************************************************)
\* Number of items (frames, end of file, malformed bytes) the peer sends.
MaxIn == 3
\* Number of start_send calls.
MaxOut == 2
\* Number of close calls.
MaxClose == 2
\* Number of Ping frames the peer sends while the application is sending.
MaxPings == 1
\* Number of items the peer sends while the application sends and polls.
MaxMsgIn == 2
\* Number of polls that return the end of the sequence or an error.
MaxEndPolls == 2

(***************************************************************************)
(* protocol::Message (tungstenite), Message (ws.rs:225-242) and frames.    *)
(***************************************************************************)
\* "hello"
PAYLOAD_hello == <<104, 101, 108, 108, 111>>
\* [1, 2, 3]
PAYLOAD_123 == <<1, 2, 3>>

Payloads == {PAYLOAD_hello, PAYLOAD_123}

ProtocolMessage(kind, payload) == [kind |-> kind, payload |-> payload]

\* Message::text building a Binary message.
text_as_binary(str) == [inner |-> ProtocolMessage("Binary", str)]

\* Message::text (ws.rs:231-235)
text(str) == [inner |-> ProtocolMessage("Text", str)]

\* Message::binary (ws.rs:238-242)
binary(v) == [inner |-> ProtocolMessage("Binary", v)]

\* Message::as_bytes (ws.rs:263-269): the bytes of a Text or Binary message;
\* the third arm is unreachable!().
as_bytes(m) ==
  IF m.inner.kind = "Text" THEN [tag |-> "bytes", bytes |-> m.inner.payload]
  ELSE IF m.inner.kind = "Binary" THEN [tag |-> "bytes", bytes |-> m.inner.payload]
  ELSE [tag |-> "unreachable"]

\* The messages application code builds: the constructor and its argument.
AppMessages ==
  {[ctor |-> "text", arg |-> PAYLOAD_hello], [ctor |-> "binary", arg |-> PAYLOAD_123]}

Build(m) == IF m.ctor = "text" THEN text(m.arg) ELSE binary(m.arg)

Frame(opcode, payload) == [opcode |-> opcode, payload |-> payload]
CloseFrame == Frame("close", <<>>)

\* The framing layer writes a protocol::Message as the frame of its opcode
\* and reads a frame as the protocol::Message of its kind.
Encode(msg) ==
  Frame(CASE msg.kind = "Text" -> "text"
          [] msg.kind = "Binary" -> "binary"
          [] msg.kind = "Ping" -> "ping"
          [] msg.kind = "Pong" -> "pong",
        msg.payload)

Decode(frame) ==
  ProtocolMessage(CASE frame.opcode = "text" -> "Text"
                    [] frame.opcode = "binary" -> "Binary"
                    [] frame.opcode = "ping" -> "Ping"
                    [] frame.opcode = "pong" -> "Pong",
                  frame.payload)

\* What the peer may send: a frame, the end of the transport, malformed bytes.
FrameItem(f) == [t |-> "frame", frame |-> f]
EofItem == [t |-> "eof"]
MalformedItem == [t |-> "malformed"]

PeerFrames ==
  {Frame("text", PAYLOAD_hello), Frame("binary", PAYLOAD_123),
   Frame("pong", PAYLOAD_hello), CloseFrame}
  \cup {Frame("ping", p) : p \in Payloads}

ClosingItems ==
  {FrameItem(Frame("text", PAYLOAD_hello)), FrameItem(CloseFrame), EofItem}

PingItems == {FrameItem(Frame("ping", p)) : p \in Payloads}

PeerItems == {FrameItem(f) : f \in PeerFrames} \cup {EofItem, MalformedItem}

\* Nothing follows a Close frame, the end of the transport or malformed bytes.
IsLastItem(item) == item.t # "frame" \/ item.frame.opcode = "close"

\* The outcomes of a write into the framing layer.
SinkOutcomes == {"Ready", "NotReady", "Err"}

InitWsVars ==
  /\ arrived = <<>>
  /\ rd = 0
  /\ rstate = "open"
  /\ sent = <<>>
  /\ written = 0
  /\ closeSent = FALSE
  /\ observed = <<>>
  /\ lastPoll = [ret |-> [tag |-> "none"], from |-> 0, to |-> 0, avail |-> 0]
  /\ attempts = <<>>
  /\ sendLog = <<>>
  /\ flushed = FALSE
  /\ closeLog = <<>>

Init == InitHsVars /\ InitWsVars

SpecHs == Init /\ [][NextHs]_vars

(***************************************************************************)
(* The framing layer, WebSocketStream (ws.rs:132), as the adapter uses it. *)
(* Its state is the record in = [rd, rstate, sent, closeSent].             *)
(***************************************************************************)
\* inner.poll() going on to read what arrives after a Close frame.
inner_poll_reads_past_close(in) ==
  IF in.rstate = "eof" THEN [in |-> in, res |-> [tag |-> "None"]]
  ELSE IF in.rstate = "failed" THEN [in |-> in, res |-> [tag |-> "Error"]]
  ELSE IF in.rd = Len(arrived)
  THEN [in |-> in,
        res |-> [tag |-> IF in.rstate = "closed" THEN "ConnectionClosed" ELSE "NotReady"]]
  ELSE LET item == arrived[in.rd + 1]
           next == [in EXCEPT !.rd = @ + 1]
       IN IF item.t = "eof"
          THEN [in |-> [next EXCEPT !.rstate = "eof"], res |-> [tag |-> "None"]]
          ELSE IF item.t = "malformed"
          THEN [in |-> [next EXCEPT !.rstate = "failed"], res |-> [tag |-> "Error"]]
          ELSE IF item.frame.opcode = "close"
          THEN [in |-> [next EXCEPT !.rstate = "closed",
                                    !.closeSent = TRUE,
                                    !.sent = IF in.closeSent THEN @
                                             ELSE Append(@, CloseFrame)],
                res |-> [tag |-> "ConnectionClosed"]]
          ELSE [in |-> next, res |-> [tag |-> "Item", msg |-> Decode(item.frame)]]

\* inner.poll() (ws.rs:141): the next item the peer sent, if any.  A Close
\* frame ends the reading side with ConnectionClosed, and is answered by a
\* Close frame unless one was sent already; the end of the transport ends
\* it with Ready(None); malformed bytes end it with an error.
inner_poll(in) ==
  IF in.rstate = "closed" THEN [in |-> in, res |-> [tag |-> "ConnectionClosed"]]
  ELSE IF in.rstate = "eof" THEN [in |-> in, res |-> [tag |-> "None"]]
  ELSE IF in.rstate = "failed" THEN [in |-> in, res |-> [tag |-> "Error"]]
  ELSE IF in.rd = Len(arrived) THEN [in |-> in, res |-> [tag |-> "NotReady"]]
  ELSE LET item == arrived[in.rd + 1]
           next == [in EXCEPT !.rd = @ + 1]
       IN IF item.t = "eof"
          THEN [in |-> [next EXCEPT !.rstate = "eof"], res |-> [tag |-> "None"]]
          ELSE IF item.t = "malformed"
          THEN [in |-> [next EXCEPT !.rstate = "failed"], res |-> [tag |-> "Error"]]
          ELSE IF item.frame.opcode = "close"
          THEN [in |-> [next EXCEPT !.rstate = "closed",
                                    !.closeSent = TRUE,
                                    !.sent = IF in.closeSent THEN @
                                             ELSE Append(@, CloseFrame)],
                res |-> [tag |-> "ConnectionClosed"]]
          ELSE [in |-> next, res |-> [tag |-> "Item", msg |-> Decode(item.frame)]]

\* inner.start_send(msg) (ws.rs:167, ws.rs:182) with the given outcome:
\* accepted for writing, handed back, or failed.
inner_start_send(in, msg, outcome) ==
  IF outcome = "Ready"
  THEN [in |-> [in EXCEPT !.sent = Append(@, Encode(msg))], res |-> [tag |-> "Ready"]]
  ELSE IF outcome = "NotReady"
  THEN [in |-> in, res |-> [tag |-> "NotReady", item |-> msg]]
  ELSE [in |-> in, res |-> [tag |-> "Err"]]

\* inner.close() (ws.rs:203): a Close frame is accepted for writing unless
\* one was sent already.
inner_close(in) ==
  IF in.closeSent THEN in
  ELSE [in EXCEPT !.closeSent = TRUE, !.sent = Append(@, CloseFrame)]

(***************************************************************************)
(* WebSocket as a Stream: poll (ws.rs:139-174).                            *)
(***************************************************************************)
\* poll returning a Pong as a Message as well.
poll_yields_pong(msg) == msg.kind \in {"Text", "Binary", "Pong"}

\* poll returning Text messages only: a Binary message is dropped.
poll_yields_text_only(msg) == msg.kind = "Text"

\* The arm of Text and Binary (ws.rs:156-161): the message is returned.
poll_yields(msg) == msg.kind \in {"Text", "Binary"}

\* poll reporting a closed connection as an error.
poll_return_closed_as_error(res) ==
  IF res.tag = "None" THEN [tag |-> "End"]
  ELSE IF res.tag = "NotReady" THEN [tag |-> "NotReady"]
  ELSE [tag |-> "Err"]

\* poll reporting an error of the framing layer as the end of the sequence.
poll_return_error_as_end(res) ==
  IF res.tag = "NotReady" THEN [tag |-> "NotReady"] ELSE [tag |-> "End"]

\* The arms that return without a message (ws.rs:143-152): Ready(None) and
\* ConnectionClosed end the sequence, NotReady is passed on, any other error
\* is returned as an error.
poll_return(res) ==
  IF res.tag = "None" THEN [tag |-> "End"]
  ELSE IF res.tag = "NotReady" THEN [tag |-> "NotReady"]
  ELSE IF res.tag = "ConnectionClosed" THEN [tag |-> "End"]
  ELSE [tag |-> "Err"]

\* The Ping arm answering with an empty Pong.
poll_ping_empty(in, payload, outcome) ==
  inner_start_send(in, ProtocolMessage("Pong", <<>>), outcome).in

\* The Ping arm letting a failed pong write end the stream with an error.
poll_ping_propagates(in, payload, outcome) ==
  LET r == inner_start_send(in, ProtocolMessage("Pong", payload), outcome) IN
  IF r.res.tag = "Err" THEN [r.in EXCEPT !.rstate = "failed"] ELSE r.in

\* The Ping arm (ws.rs:162-168): one start_send of a Pong with the payload
\* of the Ping; what it returns is dropped.
poll_ping(in, payload, outcome) ==
  inner_start_send(in, ProtocolMessage("Pong", payload), outcome).in

\* poll returning NotReady after a Pong instead of pulling the next frame.
RECURSIVE poll_stops_after_pong(_, _, _)
poll_stops_after_pong(in, att, o) ==
  LET r == inner_poll(in) IN
  IF r.res.tag # "Item"
  THEN [in |-> r.in, att |-> att, ret |-> poll_return(r.res)]
  ELSE IF poll_yields(r.res.msg)
  THEN [in |-> r.in, att |-> att,
        ret |-> [tag |-> "Ready", item |-> [inner |-> r.res.msg]]]
  ELSE IF r.res.msg.kind = "Ping"
  THEN poll_stops_after_pong(
         poll_ping(r.in, r.res.msg.payload, Head(o)),
         Append(att, [payload |-> r.res.msg.payload, outcome |-> Head(o)]),
         Tail(o))
  ELSE [in |-> r.in, att |-> att, ret |-> [tag |-> "NotReady"]]

\* The loop of poll from framing-layer state in; att is the log of pong
\* attempts and o the outcomes of the pong writes still to come.  The result
\* is the state reached, the log, and what poll returns.
RECURSIVE poll(_, _, _)
poll(in, att, o) ==
  LET r == inner_poll(in) IN
  IF r.res.tag # "Item"
  THEN [in |-> r.in, att |-> att, ret |-> poll_return(r.res)]
  ELSE IF poll_yields(r.res.msg)
  THEN [in |-> r.in, att |-> att,
        ret |-> [tag |-> "Ready", item |-> [inner |-> r.res.msg]]]
  ELSE IF r.res.msg.kind = "Ping"
  THEN poll(poll_ping(r.in, r.res.msg.payload, Head(o)),
            Append(att, [payload |-> r.res.msg.payload, outcome |-> Head(o)]),
            Tail(o))
  ELSE poll(r.in, att, o)

\* The number of Ping frames among the items not yet read, from position i
\* on: at most that many pong writes happen in one poll.
RECURSIVE PendingPings(_)
PendingPings(i) ==
  IF i > Len(arrived) THEN 0
  ELSE (IF arrived[i].t = "frame" /\ arrived[i].frame.opcode = "ping" THEN 1 ELSE 0)
       + PendingPings(i + 1)

(***************************************************************************)
(* WebSocket as a Sink: start_send, poll_complete, close (ws.rs:181-208).  *)
(***************************************************************************)
\* start_send keeping a message the framing layer handed back, to write it
\* later on its own.
start_send_buffers(in, item, outcome) ==
  LET r == inner_start_send(in, item.inner, outcome) IN
  IF r.res.tag = "Ready" THEN [in |-> r.in, ret |-> [tag |-> "Ready"]]
  ELSE IF r.res.tag = "NotReady"
  THEN [in |-> [r.in EXCEPT !.sent = Append(@, Encode(r.res.item))],
        ret |-> [tag |-> "NotReady", item |-> [inner |-> r.res.item]]]
  ELSE [in |-> r.in, ret |-> [tag |-> "Err"]]

\* start_send (ws.rs:181-192)
start_send(in, item, outcome) ==
  LET r == inner_start_send(in, item.inner, outcome) IN
  IF r.res.tag = "Ready" THEN [in |-> r.in, ret |-> [tag |-> "Ready"]]
  ELSE IF r.res.tag = "NotReady"
  THEN [in |-> r.in, ret |-> [tag |-> "NotReady", item |-> [inner |-> r.res.item]]]
  ELSE [in |-> r.in, ret |-> [tag |-> "Err"]]

\* close doing a flush only.
close_only_flushes(in) == in

\* close (ws.rs:202-208)
close(in) == inner_close(in)

(***************************************************************************)
(* The channel: one action per operation.                                  *)
(***************************************************************************)
Inner == [rd |-> rd, rstate |-> rstate, sent |-> sent, closeSent |-> closeSent]

EndPolls == Cardinality({i \in 1..Len(observed) : observed[i].tag \in {"End", "Err"}})

\* The peer sends a frame, ends the transport, or sends malformed bytes.
PeerSend(item, limit) ==
  /\ Len(arrived) < limit
  /\ arrived # <<>> => ~IsLastItem(arrived[Len(arrived)])
  /\ arrived' = Append(arrived, item)
  /\ UNCHANGED <<rd, rstate, sent, written, closeSent, observed, lastPoll,
                 attempts, sendLog, flushed, closeLog>>
  /\ UNCHANGED hsVars

\* The application polls the stream; o gives the outcome of each pong write.
Poll(o) ==
  /\ EndPolls < MaxEndPolls
  /\ LET r == poll(Inner, attempts, o) IN
     /\ rd' = r.in.rd
     /\ rstate' = r.in.rstate
     /\ sent' = r.in.sent
     /\ closeSent' = r.in.closeSent
     /\ attempts' = r.att
     /\ lastPoll' = [ret |-> r.ret, from |-> rd, to |-> r.in.rd, avail |-> Len(arrived)]
     /\ observed' = IF r.ret.tag = "NotReady" THEN observed ELSE Append(observed, r.ret)
     /\ flushed' = (flushed /\ r.in.sent = sent)
  /\ UNCHANGED <<arrived, written, sendLog, closeLog>>
  /\ UNCHANGED hsVars

\* The application builds message m and submits it.
StartSend(m, outcome) ==
  /\ Len(sendLog) < MaxOut
  /\ LET r == start_send(Inner, Build(m), outcome) IN
     /\ sent' = r.in.sent
     /\ sendLog' = Append(sendLog, [msg |-> m, item |-> Build(m),
                                    outcome |-> outcome, ret |-> r.ret,
                                    queued |-> Len(r.in.sent) - Len(sent)])
     /\ flushed' = (flushed /\ r.in.sent = sent)
  /\ UNCHANGED <<arrived, rd, rstate, written, closeSent, observed, lastPoll,
                 attempts, closeLog>>
  /\ UNCHANGED hsVars

\* poll_complete (ws.rs:194-200): inner.poll_complete() writes frames out.
\* Ready: all of them are written; NotReady: some are left; Err: the write
\* failed.
PollComplete(outcome) ==
  /\ outcome = "NotReady" => written < Len(sent)
  /\ written' = IF outcome = "Ready" THEN Len(sent) ELSE written
  /\ flushed' = (outcome = "Ready")
  /\ UNCHANGED <<arrived, rd, rstate, sent, closeSent, observed, lastPoll,
                 attempts, sendLog, closeLog>>
  /\ UNCHANGED hsVars

\* The application closes the sink; the framing layer then writes what it
\* can, as for poll_complete.
Close(outcome) ==
  /\ Len(closeLog) < MaxClose
  /\ LET in == close(Inner) IN
     /\ outcome = "NotReady" => written < Len(in.sent)
     /\ sent' = in.sent
     /\ closeSent' = in.closeSent
     /\ written' = IF outcome = "Ready" THEN Len(in.sent) ELSE written
     /\ closeLog' = Append(closeLog, [sentBefore |-> closeSent,
                                      emitted |-> Len(in.sent) - Len(sent)])
     /\ flushed' = (flushed /\ in.sent = sent)
  /\ UNCHANGED <<arrived, rd, rstate, observed, lastPoll, attempts, sendLog>>
  /\ UNCHANGED hsVars

\* The framing layer writes one pending frame (part of an unfinished flush).
Drain ==
  /\ written < Len(sent)
  /\ written' = written + 1
  /\ UNCHANGED <<arrived, rd, rstate, sent, closeSent, observed, lastPoll,
                 attempts, sendLog, flushed, closeLog>>
  /\ UNCHANGED hsVars

\* The receiving side: the peer sends anything and the application polls.
NextWs ==
  \/ \E item \in PeerItems : PeerSend(item, MaxIn)
  \/ \E o \in [1..PendingPings(rd + 1) -> SinkOutcomes] : Poll(o)
  \/ Drain

\* Closing: the peer sends messages and closes or ends the transport, the
\* application polls, closes and flushes.
NextClose ==
  \/ \E item \in ClosingItems : PeerSend(item, MaxIn)
  \/ \E o \in [1..PendingPings(rd + 1) -> SinkOutcomes] : Poll(o)
  \/ \E outcome \in SinkOutcomes : Close(outcome)
  \/ Drain

\* The sending side: the application sends, flushes and polls, while the
\* peer sends Pings.
NextSink ==
  \/ \E item \in PingItems : PeerSend(item, MaxPings)
  \/ \E o \in [1..PendingPings(rd + 1) -> SinkOutcomes] : Poll(o)
  \/ \E m \in AppMessages, outcome \in SinkOutcomes : StartSend(m, outcome)
  \/ \E outcome \in SinkOutcomes : PollComplete(outcome)
  \/ Drain

SpecWs == Init /\ [][NextWs]_vars

SpecSink == Init /\ [][NextSink]_vars

SpecClose == Init /\ [][NextClose]_vars

\* A peer that keeps sending after its Close frame.
PeerSendLate(item) ==
  /\ Len(arrived) < MaxIn
  /\ \E i \in 1..Len(arrived) :
       arrived[i].t = "frame" /\ arrived[i].frame.opcode = "close"
  /\ arrived[Len(arrived)].t = "frame"
  /\ arrived' = Append(arrived, item)
  /\ UNCHANGED <<rd, rstate, sent, written, closeSent, observed, lastPoll,
                 attempts, sendLog, flushed, closeLog>>
  /\ UNCHANGED hsVars

\* The end of the sequence: the peer sends messages, closes or ends the
\* transport, and may send more after its Close frame; the application polls
\* on.
NextEnd ==
  \/ \E item \in ClosingItems : PeerSend(item, MaxIn)
  \/ \E item \in ClosingItems \cup {MalformedItem} : PeerSendLate(item)
  \/ \E o \in [1..PendingPings(rd + 1) -> SinkOutcomes] : Poll(o)
  \/ Drain

SpecEnd == Init /\ [][NextEnd]_vars

\* What the peer sends while the application both sends and polls.
MsgItems ==
  {FrameItem(Frame("binary", PAYLOAD_123)), FrameItem(Frame("ping", PAYLOAD_123)),
   FrameItem(Frame("pong", PAYLOAD_hello))}

\* The messages application code holds: it builds and submits messages and
\* polls, while the peer sends Binary, Ping and Pong frames.
NextMsg ==
  \/ \E item \in MsgItems : PeerSend(item, MaxMsgIn)
  \/ \E o \in [1..PendingPings(rd + 1) -> SinkOutcomes] : Poll(o)
  \/ \E m \in AppMessages, outcome \in SinkOutcomes : StartSend(m, outcome)

SpecMsg == Init /\ [][NextMsg]_vars

(***************************************************************************)
(* The five handshake preconditions, as the specification states them      *)
(* (section 4.1), independently of the filters above.                      *)
(***************************************************************************)
IsText(v) == \A i \in 1..Len(v) : v[i] = 9 \/ (v[i] >= 32 /\ v[i] < 127)

\* v holds "upgrade" (in any case) at position i, delimited on each side by
\* an end of the value or by ", ".
UpgradeTokenAt(v, i) ==
  /\ i + 6 <= Len(v)
  /\ \A j \in 1..7 : to_ascii_lowercase(v[i + j - 1]) = STR_upgrade[j]
  /\ \/ i = 1
     \/ (i >= 3 /\ v[i - 2] = 44 /\ v[i - 1] = 32)
  /\ \/ i + 6 = Len(v)
     \/ (i + 8 <= Len(v) /\ v[i + 7] = 44 /\ v[i + 8] = 32)

ConnectionPrecondition(h) ==
  /\ IsSome(h)
  /\ IsText(Unwrap(h))
  /\ \E i \in 1..Len(Unwrap(h)) : UpgradeTokenAt(Unwrap(h), i)

UpgradePrecondition(h) ==
  /\ IsSome(h)
  /\ Len(Unwrap(h)) = 9
  /\ \A j \in 1..9 : to_ascii_lowercase(Unwrap(h)[j]) = STR_websocket[j]

Preconditions(req) ==
  /\ req.method = "GET"
  /\ ConnectionPrecondition(req.connection)
  /\ UpgradePrecondition(req.upgrade)
  /\ req.version = Some(STR_13)
  /\ IsSome(req.key)

\* The number of preconditions request req violates.
Violations(req) ==
  (IF req.method = "GET" THEN 0 ELSE 1)
  + (IF ConnectionPrecondition(req.connection) THEN 0 ELSE 1)
  + (IF UpgradePrecondition(req.upgrade) THEN 0 ELSE 1)
  + (IF req.version = Some(STR_13) THEN 0 ELSE 1)
  + (IF IsSome(req.key) THEN 0 ELSE 1)

(***************************************************************************)
(* C1: a request that misses or violates at least one of the five          *)
(* handshake preconditions is rejected by the filter, and no 101 response  *)
(* (no response at all) is ever produced for it.                           *)
(***************************************************************************)
C1_ViolationRejected ==
  /\ \A c \in Conns :
       (IsSome(lastReq) /\ Unwrap(lastReq).conn = c
          /\ ~Preconditions(Unwrap(lastReq).req))
       => reply[c] = Rejected
  /\ \A c \in Conns :
       reply[c] = Rejected
       => response[c] = None /\ upgradeFut[c] = "none" /\ factoryCalls[c] = 0

\* A request violating exactly one precondition, the version, was rejected.
C1_Witness ==
  /\ IsSome(lastReq)
  /\ Violations(Unwrap(lastReq).req) = 1
  /\ Unwrap(lastReq).req.version = Some(STR_8)
  /\ reply[Unwrap(lastReq).conn] = Rejected

(***************************************************************************)
(* C2: for a request that satisfies all five preconditions the filter      *)
(* yields a Ws, and the reply Ws::into_response builds from it has status  *)
(* 101, exactly the headers connection: upgrade, upgrade: websocket and    *)
(* sec-websocket-accept: <the accept value of that request's key>, and an  *)
(* empty body.                                                             *)
(***************************************************************************)
ExpectedResponse(accept) ==
  [status |-> 101,
   headers |-> << <<"connection", STR_upgrade>>,
                  <<"upgrade", STR_websocket>>,
                  <<"sec-websocket-accept", accept>> >>,
   body |-> <<>>]

C2_SwitchingProtocols ==
  /\ \A c \in Conns :
       (IsSome(lastReq) /\ Unwrap(lastReq).conn = c
          /\ Preconditions(Unwrap(lastReq).req))
       => /\ reply[c] = Ws(AcceptOf[Unwrap(Unwrap(lastReq).req.key)])
          /\ IsSome(response[c])
             => Unwrap(response[c])
                  = ExpectedResponse(AcceptOf[Unwrap(Unwrap(lastReq).req.key)])
  /\ \A c \in Conns :
       IsSome(response[c])
       => reply[c].kind = "ws"
          /\ Unwrap(response[c]) = ExpectedResponse(reply[c].accept)

\* "s3pPLMBiTxaQ9kYGzzhZRbK+xOo=", the accept value RFC 6455 gives for the
\* key "dGhlIHNhbXBsZSBub25jZQ==".
ACCEPT_sample ==
  <<115, 51, 112, 80, 76, 77, 66, 105, 84, 120, 97, 81, 57, 107,
    89, 71, 122, 122, 104, 90, 82, 98, 75, 43, 120, 79, 111, 61>>

\* The reply of a request that satisfies the preconditions, with the key of
\* RFC 6455, was produced and carries the accept value of RFC 6455.
C2_Witness ==
  /\ IsSome(lastReq)
  /\ Preconditions(Unwrap(lastReq).req)
  /\ Unwrap(lastReq).req.key = Some(KEY_sample)
  /\ IsSome(response[Unwrap(lastReq).conn])
  /\ Unwrap(response[Unwrap(lastReq).conn])
       = ExpectedResponse(ACCEPT_sample)

(***************************************************************************)
(* What the claims about the channel speak of.                             *)
(***************************************************************************)
IsFrameOf(item, opcodes) == item.t = "frame" /\ item.frame.opcode \in opcodes

\* The Message a Text or Binary frame is delivered as.
MessageOf(frame) ==
  [inner |-> [kind |-> IF frame.opcode = "text" THEN "Text" ELSE "Binary",
              payload |-> frame.payload]]

RECURSIVE MapSeq(_, _)
MapSeq(F(_), seq) ==
  IF seq = <<>> THEN <<>> ELSE <<F(Head(seq))>> \o MapSeq(F, Tail(seq))

IsDataItem(item) == IsFrameOf(item, {"text", "binary"})
IsPingItem(item) == IsFrameOf(item, {"ping"})
IsReady(entry) == entry.tag = "Ready"
ItemOf(entry) == entry.item
FrameOfItem(item) == item.frame
PayloadOfItem(item) == item.frame.payload
PayloadOf(x) == x.payload

\* The messages of the Text and Binary frames among the first n items.
DataMessages(n) ==
  MapSeq(MessageOf, MapSeq(FrameOfItem, SelectSeq(SubSeq(arrived, 1, n), IsDataItem)))

\* The messages poll has yielded, in order.
Yielded == MapSeq(ItemOf, SelectSeq(observed, IsReady))

Polled == lastPoll.ret.tag # "none"

\* The most recent poll read at least one item, the last of them being ...
LastRead == arrived[lastPoll.to]
ReadSome == Polled /\ lastPoll.to > lastPoll.from

(***************************************************************************)
(* C3: poll never yields a Ping, Pong or Close frame as a Message: every   *)
(* item it yields is a Text or Binary frame that arrived; the items a poll *)
(* reads before the one it returns on are Pings and Pongs, and a poll that *)
(* last read a Ping or a Pong returns only because nothing more had        *)
(* arrived (it returns NotReady, having read everything).                  *)
(***************************************************************************)
C3_OnlyDataYielded ==
  /\ \A i \in 1..Len(observed) :
       observed[i].tag = "Ready" => observed[i].item.inner.kind \in {"Text", "Binary"}
  /\ (Polled /\ lastPoll.ret.tag = "Ready")
     => /\ ReadSome
        /\ IsDataItem(LastRead)
        /\ lastPoll.ret.item = MessageOf(LastRead.frame)
  /\ Polled
     => \A i \in (lastPoll.from + 1)..(lastPoll.to - 1) :
          IsFrameOf(arrived[i], {"ping", "pong"})
  /\ (ReadSome /\ IsFrameOf(LastRead, {"ping", "pong"}))
     => lastPoll.ret.tag = "NotReady" /\ lastPoll.to = lastPoll.avail

\* One poll read a Ping, a Pong and then the Text frame it returned.
C3_Witness ==
  /\ Polled
  /\ lastPoll.to = lastPoll.from + 3
  /\ \E i \in (lastPoll.from + 1)..(lastPoll.to - 1) : IsFrameOf(arrived[i], {"ping"})
  /\ \E i \in (lastPoll.from + 1)..(lastPoll.to - 1) : IsFrameOf(arrived[i], {"pong"})
  /\ lastPoll.ret = [tag |-> "Ready", item |-> text(PAYLOAD_hello)]

(***************************************************************************)
(* C4: a poll that reads the peer's Close frame, or the end of the         *)
(* transport, returns the end of the sequence (Ready(None)); no error is   *)
(* returned unless malformed bytes were read.                              *)
(***************************************************************************)
C4_CloseEndsSequence ==
  /\ (ReadSome /\ (IsFrameOf(LastRead, {"close"}) \/ LastRead.t = "eof"))
     => lastPoll.ret.tag = "End"
  /\ rstate \in {"closed", "eof"}
     => /\ observed # <<>>
        /\ observed[Len(observed)].tag = "End"
        /\ \A i \in 1..Len(observed) : observed[i].tag # "Err"

\* One poll read a Ping and then the Close frame, and returned the end.
C4_Witness ==
  /\ ReadSome
  /\ lastPoll.to = lastPoll.from + 2
  /\ IsFrameOf(LastRead, {"close"})
  /\ lastPoll.ret.tag = "End"

(***************************************************************************)
(* C5: a poll that reads malformed bytes (the framing layer reports an     *)
(* error other than ConnectionClosed) returns an error, not the end of the *)
(* sequence and not a Message; an end is returned only for a Close frame   *)
(* or the end of the transport, an error only for a failure.               *)
(***************************************************************************)
C5_ErrorDistinguished ==
  /\ (ReadSome /\ LastRead.t = "malformed") => lastPoll.ret.tag = "Err"
  /\ \A i \in 1..Len(observed) :
       /\ observed[i].tag = "Err" => rstate = "failed"
       /\ observed[i].tag = "End" => rstate \in {"closed", "eof"}
  /\ rstate = "failed" => observed # <<>> /\ observed[Len(observed)].tag = "Err"

\* One poll read a Ping and then malformed bytes, and returned an error.
C5_Witness ==
  /\ ReadSome
  /\ lastPoll.to = lastPoll.from + 2
  /\ LastRead.t = "malformed"
  /\ lastPoll.ret.tag = "Err"

(***************************************************************************)
(* C6: for each Ping read, poll makes exactly one attempt to write a Pong  *)
(* with the same payload; the Pongs accepted for writing are exactly those *)
(* of the attempts the outbound path accepted, once each and in order, so  *)
(* an attempt that found it not ready leaves no Pong, buffered or written; *)
(* and poll returns an error only when malformed bytes were read.          *)
(***************************************************************************)
IsAcceptedAttempt(a) == a.outcome = "Ready"
IsPongFrame(f) == f.opcode = "pong"

C6_PongBestEffort ==
  /\ MapSeq(PayloadOf, attempts)
       = MapSeq(PayloadOfItem, SelectSeq(SubSeq(arrived, 1, rd), IsPingItem))
  /\ MapSeq(PayloadOf, SelectSeq(sent, IsPongFrame))
       = MapSeq(PayloadOf, SelectSeq(attempts, IsAcceptedAttempt))
  /\ written <= Len(sent)
  /\ (Polled /\ lastPoll.ret.tag = "Err") => (rd >= 1 /\ arrived[rd].t = "malformed")

\* Two Pings with different payloads were read; the first Pong was accepted
\* and has been written, the second found the outbound path not ready.
C6_Witness ==
  /\ Len(attempts) = 2
  /\ attempts[1] = [payload |-> PAYLOAD_123, outcome |-> "Ready"]
  /\ attempts[2] = [payload |-> PAYLOAD_hello, outcome |-> "NotReady"]
  /\ sent = <<Frame("pong", PAYLOAD_123)>>
  /\ written = 1
  /\ lastPoll.ret.tag = "NotReady"

(***************************************************************************)
(* C7: the consumer of poll observes exactly the Text and Binary frames    *)
(* read so far, in arrival order, each once with its kind and payload; and *)
(* once a sequence of Text, Binary, Ping and Pong frames ended by a Close  *)
(* frame has been read, what it observed is those messages followed        *)
(* immediately by the end of the sequence.                                 *)
(***************************************************************************)
C7_InOrderThenEnd ==
  /\ Yielded = DataMessages(rd)
  /\ rstate = "closed"
     => /\ rd = Len(arrived)
        /\ Len(observed) > Len(Yielded)
        /\ \A i \in 1..Len(observed) :
             IF i <= Len(Yielded)
             THEN observed[i] = [tag |-> "Ready", item |-> DataMessages(rd)[i]]
             ELSE observed[i] = [tag |-> "End"]

\* Text("hello"), Binary([1, 2, 3]) and Close arrived; the consumer observed
\* the two messages and then the end.
C7_Witness ==
  /\ arrived = <<FrameItem(Frame("text", PAYLOAD_hello)),
                 FrameItem(Frame("binary", PAYLOAD_123)), FrameItem(CloseFrame)>>
  /\ observed = <<[tag |-> "Ready", item |-> text(PAYLOAD_hello)],
                  [tag |-> "Ready", item |-> binary(PAYLOAD_123)],
                  [tag |-> "End"]>>

(***************************************************************************)
(* What the claims about sending speak of.                                 *)
(***************************************************************************)
\* The frame the peer should see for a message the application built.
FrameFor(m) == Frame(IF m.ctor = "text" THEN "text" ELSE "binary", m.arg)

IsDataFrame(f) == f.opcode \in {"text", "binary"}
IsAcceptedSend(e) == e.ret.tag = "Ready"
MsgOf(e) == e.msg

\* The frames of the messages start_send accepted, in submission order.
AcceptedFrames == MapSeq(FrameFor, MapSeq(MsgOf, SelectSeq(sendLog, IsAcceptedSend)))

\* The frames that have reached the peer.
Wire == SubSeq(sent, 1, written)

(***************************************************************************)
(* C8: when the transport cannot accept more data, start_send returns      *)
(* NotReady with the very message submitted (same kind and payload) and    *)
(* queues nothing; the Text and Binary frames accepted for writing are     *)
(* those of the accepted submissions only, so a message handed back is     *)
(* sent only if it is submitted again and accepted.                        *)
(***************************************************************************)
C8_NotReadyHandsBack ==
  /\ \A i \in 1..Len(sendLog) :
       sendLog[i].outcome = "NotReady"
       => /\ sendLog[i].ret = [tag |-> "NotReady", item |-> sendLog[i].item]
          /\ sendLog[i].ret.item.inner.kind
               = (IF sendLog[i].msg.ctor = "text" THEN "Text" ELSE "Binary")
          /\ sendLog[i].ret.item.inner.payload = sendLog[i].msg.arg
          /\ sendLog[i].queued = 0
  /\ Len(SelectSeq(sent, IsDataFrame)) = Len(SelectSeq(sendLog, IsAcceptedSend))

\* Text("hello") was handed back, then submitted again and accepted.
C8_Witness ==
  /\ Len(sendLog) = 2
  /\ sendLog[1].msg = [ctor |-> "text", arg |-> PAYLOAD_hello]
  /\ sendLog[1].ret.tag = "NotReady"
  /\ sendLog[2].msg = sendLog[1].msg
  /\ sendLog[2].ret.tag = "Ready"
  /\ SelectSeq(sent, IsDataFrame) = <<Frame("text", PAYLOAD_hello)>>

(***************************************************************************)
(* C9: the Text and Binary frames accepted for writing are always those of *)
(* the messages start_send accepted, in submission order, each with the    *)
(* payload submitted and the opcode of its kind; after a poll_complete     *)
(* that returned Ready, the peer has received exactly those.               *)
(***************************************************************************)
C9_RoundTrip ==
  /\ SelectSeq(sent, IsDataFrame) = AcceptedFrames
  /\ flushed => SelectSeq(Wire, IsDataFrame) = AcceptedFrames

\* Text("hello") and Binary([1, 2, 3]) were accepted, with a Pong written
\* between them, and the flush completed.
C9_Witness ==
  /\ flushed
  /\ Wire = <<Frame("text", PAYLOAD_hello), Frame("pong", PAYLOAD_123),
              Frame("binary", PAYLOAD_123)>>
  /\ Len(sendLog) = 2

(***************************************************************************)
(* C10: a close call emits a Close frame if none has been sent on the      *)
(* connection and emits nothing otherwise; over any sequence of close      *)
(* calls and Close frames received, at most one Close frame is sent.       *)
(***************************************************************************)
IsCloseFrame(f) == f.opcode = "close"

C10_AtMostOneClose ==
  /\ \A i \in 1..Len(closeLog) :
       closeLog[i].emitted = (IF closeLog[i].sentBefore THEN 0 ELSE 1)
  /\ Len(SelectSeq(sent, IsCloseFrame)) <= 1
  /\ closeSent <=> Len(SelectSeq(sent, IsCloseFrame)) = 1

\* The first close call emitted the Close frame, the peer's Close frame was
\* then read, and a second close call emitted nothing.
C10_Witness ==
  /\ Len(closeLog) = 2
  /\ closeLog[1].emitted = 1
  /\ closeLog[2].emitted = 0
  /\ rstate = "closed"
  /\ SelectSeq(sent, IsCloseFrame) = <<CloseFrame>>

(***************************************************************************)
(* C11: once poll has returned end-of-sequence (after a Close frame or the *)
(* end of the transport), every later poll returns end-of-sequence again   *)
(* or not-ready: never a Message and never an error, whatever the peer     *)
(* sends after its Close frame.                                            *)
(***************************************************************************)
EndSeen == \E i \in 1..Len(observed) : observed[i].tag = "End"

C11_NothingAfterEnd ==
  /\ \A i \in 1..Len(observed) : \A j \in i..Len(observed) :
       observed[i].tag = "End" => observed[j].tag = "End"
  /\ EndSeen => lastPoll.ret.tag \in {"End", "NotReady"}

\* poll returned end-of-sequence for the Close frame and again afterwards,
\* although a Text frame had arrived after the Close frame.
C11_Witness ==
  /\ Len(observed) = 2
  /\ observed[1].tag = "End"
  /\ observed[2].tag = "End"
  /\ rd = 1
  /\ arrived = <<FrameItem(CloseFrame), FrameItem(Frame("text", PAYLOAD_hello))>>

(***************************************************************************)
(* C12: when the upgrade of a connection fails, no WebSocket is built and  *)
(* the handler is not invoked for it, then or later; the step that fails   *)
(* sends no response and changes nothing but the log, to which it adds the *)
(* one line "ws upgrade error".                                            *)
(***************************************************************************)
UpgradeFails(c) == upgradeFut[c] # "failed" /\ upgradeFut'[c] = "failed"

C12_UpgradeFailureOnlyLogged ==
  /\ [](\A c \in Conns :
          upgradeFut[c] = "failed"
          => /\ handlerCalls[c] = <<>>
             /\ task[c] = "none"
             /\ logs[c] = <<"ws upgrade error">>)
  /\ [][\A c \in Conns :
          UpgradeFails(c)
          => /\ response' = response
             /\ reply' = reply
             /\ handlerCalls' = handlerCalls
             /\ task' = task
             /\ logs' = [logs EXCEPT ![c] = Append(@, "ws upgrade error")]]_vars

\* The 101 response of connection 1 was produced and its upgrade failed.
C12_Witness ==
  /\ IsSome(response[1])
  /\ Unwrap(response[1]).status = 101
  /\ upgradeFut[1] = "failed"
  /\ handlerCalls[1] = <<>>
  /\ logs[1] = <<"ws upgrade error">>

(***************************************************************************)
(* C13: for a handshake that is rejected, and for a connection whose       *)
(* upgrade fails, the handler factory is not called.  The closure of       *)
(* ws_new calls the factory when the filters pass, before the upgrade is   *)
(* awaited, so the second half does not hold of a connection whose         *)
(* upgrade fails afterwards.                                               *)
(***************************************************************************)
C13_FactoryNotCalled ==
  \A c \in Conns :
    (reply[c] = Rejected \/ upgradeFut[c] = "failed") => factoryCalls[c] = 0

(***************************************************************************)
(* C14: the factory is called exactly once for a connection whose          *)
(* handshake is accepted; the handler is invoked exactly once, with the    *)
(* WebSocket of that very connection, for a connection whose upgrade has   *)
(* completed, and not at all before that or for any other connection.      *)
(***************************************************************************)
C14_HandlerOncePerConnection ==
  \A c \in Conns :
    /\ factoryCalls[c] = (IF reply[c].kind = "ws" THEN 1 ELSE 0)
    /\ handlerCalls[c]
         = (IF upgradeFut[c] = "complete" THEN <<[inner |-> c]>> ELSE <<>>)
    /\ upgradeFut[c] = "complete" => factoryCalls[c] = 1 /\ IsSome(response[c])

\* Both connections were accepted and upgraded; each handler was invoked
\* with its own channel.
C14_Witness ==
  /\ factoryCalls = [c \in Conns |-> 1]
  /\ handlerCalls = [c \in Conns |-> <<[inner |-> c]>>]
  /\ \A c \in Conns : upgradeFut[c] = "complete"

(***************************************************************************)
(* C15: the session is an independent unit of work.  The filter returns    *)
(* the Ws with the upgrade wait only spawned, not completed, and no        *)
(* handler invoked; producing the response changes neither the upgrade     *)
(* wait nor any handler's work; and once the response is produced the      *)
(* upgrade wait can still resolve and a running handler can still finish.  *)
(***************************************************************************)
C15_SessionDetached ==
  /\ [](\A c \in Conns :
          /\ (IsSome(response[c]) /\ upgradeFut[c] = "spawned")
             => ENABLED UpgradeComplete(c) /\ ENABLED UpgradeError(c)
          /\ task[c] = "running"
             => ENABLED HandlerFinish(c, TRUE) /\ ENABLED HandlerFinish(c, FALSE)
          /\ (reply[c].kind = "ws" /\ response[c] = None)
             => ENABLED IntoResponse(c))
  /\ [][\A c \in Conns :
          /\ (reply[c] = NoReply /\ reply'[c].kind = "ws")
             => /\ upgradeFut'[c] = "spawned"
                /\ handlerCalls'[c] = <<>>
                /\ task'[c] = "none"
          /\ (response[c] = None /\ IsSome(response'[c]))
             => /\ upgradeFut' = upgradeFut
                /\ handlerCalls' = handlerCalls
                /\ task' = task]_vars

\* The response of connection 1 was produced first; its handler ran and
\* finished afterwards, while the upgrade wait of connection 2 is pending
\* after its response.
C15_Witness ==
  /\ IsSome(response[1])
  /\ task[1] = "done"
  /\ IsSome(response[2])
  /\ upgradeFut[2] = "spawned"

(***************************************************************************)
(* C16, as stated: if the handler's work for a connection fails, the       *)
(* failure is logged (a log line is written for it) and it reaches neither *)
(* the registering code nor any other connection.  ws spawns the handler's *)
(* future and drops its result, of type (): no line is written.            *)
(***************************************************************************)
HandlerFails(c) == task[c] = "running" /\ task'[c] = "failed"

Isolated(c) ==
  /\ reply' = reply
  /\ response' = response
  /\ factoryCalls' = factoryCalls
  /\ upgradeFut' = upgradeFut
  /\ handlerCalls' = handlerCalls
  /\ \A d \in Conns \ {c} : task'[d] = task[d] /\ logs'[d] = logs[d]

ACCEPT_a ==
  <<70, 116, 103, 72, 56, 113, 113, 102, 69, 75, 72, 118, 90, 75,
    69, 90, 89, 69, 87, 107, 89, 68, 104, 108, 88, 78, 89, 61>>

\* The accept values of the model's keys, computed outside the model.
ExpectedAccept(key) == IF key = KEY_sample THEN ACCEPT_sample ELSE ACCEPT_a

C17_AcceptValue ==
  /\ Len(GUID) = 36
  /\ IsSome(lastReq)
     => LET req == Unwrap(lastReq).req
            c == Unwrap(lastReq).conn
        IN /\ reply[c].kind = "ws"
              => reply[c].accept = ExpectedAccept(Unwrap(req.key))
           /\ (IsSome(req.key) /\ IsSome(ws_new_filters([req EXCEPT !.key = Some(KEY_sample)])))
              => reply[c].kind = "ws"
  /\ \A c \in Conns :
       reply[c].kind = "ws" => reply[c].accept \in {ACCEPT_sample, ACCEPT_a}

\* Both keys were hashed: connection 1 was accepted with the key of RFC 6455
\* and connection 2 with the key "a".
C17_Witness ==
  /\ reply[1] = Ws(ACCEPT_sample)
  /\ reply[2] = Ws(ACCEPT_a)
  /\ IsSome(lastReq)
  /\ Unwrap(lastReq).req.key = Some(KEY_a)

(***************************************************************************)
(* C18: the Connection check passes exactly when the header value is text  *)
(* and, read as a comma-separated list of tokens (elements separated by a  *)
(* comma, with optional spaces or tabs around them), contains a token that *)
(* equals "upgrade" ignoring ASCII case.  The code splits on ", " only, so *)
(* a list written without a space after its comma is not taken apart.      *)
(***************************************************************************)
IsOWS(b) == b = 32 \/ b = 9

\* v without its leading and its trailing spaces and tabs.
RECURSIVE TrimOWS(_)
TrimOWS(v) ==
  IF v = <<>> THEN v
  ELSE IF IsOWS(v[1]) THEN TrimOWS(Tail(v))
  ELSE IF IsOWS(v[Len(v)]) THEN TrimOWS(SubSeq(v, 1, Len(v) - 1))
  ELSE v

HasUpgradeToken(v) ==
  LET elems == split(v, <<44>>) IN
  \E k \in 1..Len(elems) : eq_ignore_ascii_case(TrimOWS(elems[k]), STR_upgrade)

C18_ConnectionTokenList ==
  IsSome(lastReq)
  => LET req == Unwrap(lastReq).req
         c == Unwrap(lastReq).conn
     IN (/\ req.method = "GET"
         /\ IsSome(req.connection)
         /\ UpgradePrecondition(req.upgrade)
         /\ req.version = Some(STR_13)
         /\ IsSome(req.key))
        => (reply[c].kind = "ws"
              <=> (IsText(Unwrap(req.connection))
                     /\ HasUpgradeToken(Unwrap(req.connection))))

(***************************************************************************)
(* C19: the outcomes of the pong writes never change what poll delivers.   *)
(* From every state, whatever the outcome of each pong write of the poll   *)
(* (accepted, not ready, failed), poll reads the same frames and returns   *)
(* the same Message, end-of-sequence, not-ready or read error as when      *)
(* every pong write is accepted.                                           *)
(***************************************************************************)
PongOutcomes == [1..PendingPings(rd + 1) -> SinkOutcomes]

AllAccepted == [i \in 1..PendingPings(rd + 1) |-> "Ready"]

C19_PongOutcomeInvisible ==
  \A o \in PongOutcomes :
    LET r == poll(Inner, attempts, o)
        a == poll(Inner, attempts, AllAccepted)
    IN /\ r.ret = a.ret
       /\ r.in.rd = a.in.rd
       /\ r.in.rstate = a.in.rstate

\* One poll read a Ping, its pong write failed, and the poll went on to
\* return the Text message that followed.
C19_Witness ==
  /\ arrived = <<FrameItem(Frame("ping", PAYLOAD_123)),
                 FrameItem(Frame("text", PAYLOAD_hello))>>
  /\ attempts = <<[payload |-> PAYLOAD_123, outcome |-> "Err"]>>
  /\ lastPoll.from = 0
  /\ lastPoll.to = 2
  /\ lastPoll.ret = [tag |-> "Ready", item |-> text(PAYLOAD_hello)]

(***************************************************************************)
(* C20: every Message application code can hold is a Text or a Binary      *)
(* message: those it builds with Message::text and Message::binary, those  *)
(* poll yields, and those start_send hands back on not-ready; as_bytes     *)
(* never reaches its unreachable arm on any of them.                       *)
(***************************************************************************)
HoldsData(m) == m.inner.kind \in {"Text", "Binary"} /\ as_bytes(m).tag = "bytes"

C20_MessagesHoldData ==
  /\ \A m \in AppMessages : HoldsData(Build(m))
  /\ \A i \in 1..Len(observed) :
       observed[i].tag = "Ready" => HoldsData(observed[i].item)
  /\ \A i \in 1..Len(sendLog) :
       /\ HoldsData(sendLog[i].item)
       /\ sendLog[i].ret.tag = "NotReady" => HoldsData(sendLog[i].ret.item)

\* poll skipped a Pong and yielded the Binary message after it, and
\* start_send handed a Text message back.
C20_Witness ==
  /\ arrived = <<FrameItem(Frame("pong", PAYLOAD_hello)),
                 FrameItem(Frame("binary", PAYLOAD_123))>>
  /\ observed = <<[tag |-> "Ready", item |-> binary(PAYLOAD_123)]>>
  /\ Len(sendLog) = 1
  /\ sendLog[1].ret = [tag |-> "NotReady", item |-> text(PAYLOAD_hello)]

=============================================================================
